---- MODULE Spec2Model ----
(***************************************************************************)
(* Model of get_stocks.py: DatabaseManager (a normalized SQLite price      *)
(* cache with TTL-gated reads) and get_stock_prices (the per-ticker        *)
(* fetch-or-cache loop).                                                   *)
(*                                                                         *)
(* Time is counted in whole minutes.  Prices are small naturals; the       *)
(* Python value None is the integer NoneVal.  A table is the sequence of   *)
(* its rows in rowid order; since no single row is ever deleted, the id    *)
(* (INTEGER PRIMARY KEY = rowid) of a row is its position.                 *)
(***************************************************************************)
EXTENDS Integers, Sequences, FiniteSets, TLC

\* ---------------------------------------------------------------- bounds
MaxClock == 2
MaxTTL == 1
MaxTickers == 2
MaxRows == 2

Symbols == {"AAPL", "MSFT"}
NoneVal == -1
TTLs == 1..MaxTTL
\* get_single_price: the quote of a symbol in a given minute.
Quote(symbol, minute) == minute + (IF symbol = "AAPL" THEN 1 ELSE 11)
Prices == {Quote(s, m) : s \in Symbols, m \in 0..MaxClock}
TableNames == {"stock_data", "ticker", "price", "date"}

\* ------------------------------------------------------------ the store
\* A database: which tables exist, and the rows of each.
EmptyDB ==
    [exists |-> {}, ticker |-> <<>>, price |-> <<>>, date |-> <<>>,
     stock_data |-> <<>>]

\* Result of one SQL statement: it either raised or produced a database.
Ok(db) == [ok |-> TRUE, db |-> db]
Raise(db) == [ok |-> FALSE, db |-> db]

\* DROP TABLE <t>: fails when the table is missing.
DropTable(db, t) ==
    IF t \in db.exists
    THEN Ok([db EXCEPT !.exists = @ \ {t}, ![t] = <<>>])
    ELSE Raise(db)

\* DROP TABLE IF EXISTS <t>
DropTableIfExists(db, t) ==
    Ok([db EXCEPT !.exists = @ \ {t}, ![t] = <<>>])

\* CREATE TABLE <t>: fails when the table is already there.
CreateTable(db, t) ==
    IF t \in db.exists THEN Raise(db)
    ELSE Ok([db EXCEPT !.exists = @ \cup {t}, ![t] = <<>>])

\* CREATE TABLE IF NOT EXISTS <t>: existing rows are kept.
CreateTableIfNotExists(db, t) ==
    IF t \in db.exists THEN Ok(db)
    ELSE Ok([db EXCEPT !.exists = @ \cup {t}, ![t] = <<>>])

\* Greatest number of rows in a table.
Rows(db) ==
    LET lens == {Len(db.ticker), Len(db.price), Len(db.date), Len(db.stock_data)}
    IN  CHOOSE n \in lens : \A m \in lens : m <= n

\* Statement number k of a method: the injected storage failure f = k makes
\* it raise before it has any effect; a statement is not run once an
\* earlier one has raised.
Step(prev, f, k, res) ==
    IF ~prev.ok THEN prev
    ELSE IF f = k THEN Raise(prev.db)
    ELSE res

\* wipe_database: four drops, then commit.
wipe_database(db, f) ==
    LET r1 == Step(Ok(db), f, 1, DropTableIfExists(db, "stock_data"))
        r2 == Step(r1, f, 2, DropTableIfExists(r1.db, "ticker"))
        r3 == Step(r2, f, 3, DropTableIfExists(r2.db, "price"))
        r4 == Step(r3, f, 4, DropTableIfExists(r3.db, "date"))
    IN  r4

\* initialize_table: four creates, then commit.
initialize_table(db, f) ==
    LET r1 == Step(Ok(db), f, 1, CreateTableIfNotExists(db, "ticker"))
        r2 == Step(r1, f, 2, CreateTableIfNotExists(r1.db, "price"))
        r3 == Step(r2, f, 3, CreateTableIfNotExists(r2.db, "date"))
        r4 == Step(r3, f, 4, CreateTableIfNotExists(r3.db, "stock_data"))
    IN  r4

\* datetime.isoformat / datetime.fromisoformat: the timestamp column holds
\* text, which the read parses back into a datetime.
isoformat(t) == <<"iso", t>>
fromisoformat(text) == text[2]

\* Position of x in seq, 0 (SQL NULL) when it is not there.
IndexOf(seq, x) ==
    IF \E k \in 1..Len(seq) : seq[k] = x
    THEN CHOOSE k \in 1..Len(seq) : seq[k] = x
    ELSE 0

\* INSERT OR IGNORE INTO ticker (symbol): symbol is UNIQUE, a duplicate is
\* ignored.
InsertTickerAlways(db, symbol) ==
    IF "ticker" \notin db.exists THEN Raise(db)
    ELSE Ok([db EXCEPT !.ticker = Append(@, symbol)])

InsertOrIgnoreTicker(db, symbol) ==
    IF "ticker" \notin db.exists THEN Raise(db)
    ELSE IF IndexOf(db.ticker, symbol) # 0 THEN Ok(db)
    ELSE Ok([db EXCEPT !.ticker = Append(@, symbol)])

\* INSERT INTO price (value)
InsertPrice(db, value) ==
    IF "price" \notin db.exists THEN Raise(db)
    ELSE Ok([db EXCEPT !.price = Append(@, value)])

\* INSERT INTO date (timestamp)
InsertDate(db, timestamp) ==
    IF "date" \notin db.exists THEN Raise(db)
    ELSE Ok([db EXCEPT !.date = Append(@, timestamp)])

\* INSERT INTO stock_data that takes the id of the new stock_data row for
\* the price and the date (the three tables are assumed to grow in step).
InsertStockDataInStep(db, symbol) ==
    IF TableNames \subseteq db.exists
    THEN Ok([db EXCEPT !.stock_data =
                Append(@, [ticker_id |-> IndexOf(db.ticker, symbol),
                           price_id |-> Len(db.stock_data) + 1,
                           date_id |-> Len(db.stock_data) + 1])])
    ELSE Raise(db)

\* INSERT INTO stock_data with the three sub-selects: the id of the symbol,
\* the greatest price id and the greatest date id.
InsertStockData(db, symbol) ==
    IF TableNames \subseteq db.exists
    THEN Ok([db EXCEPT !.stock_data =
                Append(@, [ticker_id |-> IndexOf(db.ticker, symbol),
                           price_id |-> Len(db.price),
                           date_id |-> Len(db.date)])])
    ELSE Raise(db)

\* store_price on the connection's view of the database.  The result says
\* whether the method returned (and committed) or raised, and the view it
\* leaves behind.
store_price(db, symbol, price, now, f) ==
    LET r1 == Step(Ok(db), f, 1, InsertOrIgnoreTicker(db, symbol))
        r2 == Step(r1, f, 2, InsertPrice(r1.db, price))
        r3 == Step(r2, f, 3, InsertDate(r2.db, isoformat(now)))
        r4 == Step(r3, f, 4, InsertStockData(r3.db, symbol))
    IN  r4

\* The join without its WHERE clause: the rows of every symbol.
JoinRowsAnySymbol(db, symbol) ==
    LET Matches(m) ==
            /\ m.ticker_id \in 1..Len(db.ticker)
            /\ m.price_id \in 1..Len(db.price)
            /\ m.date_id \in 1..Len(db.date)
        sel == SelectSeq(db.stock_data, Matches)
    IN  [k \in 1..Len(sel) |->
            [value |-> db.price[sel[k].price_id],
             timestamp |-> db.date[sel[k].date_id]]]

\* The rows of the four-table join for one symbol, in the order SQLite
\* produces them: stock_data is scanned in rowid order (no ORDER BY).
JoinRows(db, symbol) ==
    LET Matches(m) ==
            /\ m.ticker_id \in 1..Len(db.ticker)
            /\ db.ticker[m.ticker_id] = symbol
            /\ m.price_id \in 1..Len(db.price)
            /\ m.date_id \in 1..Len(db.date)
        sel == SelectSeq(db.stock_data, Matches)
    IN  [k \in 1..Len(sel) |->
            [value |-> db.price[sel[k].price_id],
             timestamp |-> db.date[sel[k].date_id]]]

\* cursor.fetchone(): the first row of the result.
fetchone(rows) == rows[1]

\* datetime.now() - fromisoformat(timestamp) <= timedelta(minutes=ttl)
WithinTTLInclusive(now, timestamp, ttl_minutes) ==
    now - fromisoformat(timestamp) <= ttl_minutes

\* datetime.now() - fromisoformat(timestamp) < timedelta(minutes=ttl)
WithinTTL(now, timestamp, ttl_minutes) ==
    now - fromisoformat(timestamp) < ttl_minutes

\* get_price: the price of the first joined row when it is young enough,
\* None otherwise; the SELECT raises on the injected failure f = 1.
get_price(db, symbol, ttl_minutes, now, f) ==
    LET r1 == Step(Ok(db), f, 1,
                   IF TableNames \subseteq db.exists THEN Ok(db) ELSE Raise(db))
        rows == JoinRows(db, symbol)
    IN  IF ~r1.ok THEN [ok |-> FALSE, val |-> NoneVal]
        ELSE IF rows # <<>> /\ WithinTTL(now, fetchone(rows).timestamp, ttl_minutes)
        THEN [ok |-> TRUE, val |-> fetchone(rows).value]
        ELSE [ok |-> TRUE, val |-> NoneVal]

\* ------------------------------------------------------------ the state
VARIABLES
    disk,         \* the committed content of stock_prices.db
    view,         \* the database as the open connection sees it
    conn,         \* "none", "open" or "closed": self.conn of this run
    pc,           \* position of the run
    tickers,      \* TICKERS of this run, as far as the loop has read it
    ttl,          \* TTL of this run
    drop_db,      \* DROP_DB of this run
    i,            \* position of the for loop in tickers
    price,        \* the local variable price
    clock,        \* datetime.now(), in minutes
    out,          \* the "Ticker: .. Price: .." lines printed by this run
    \* history, read by the properties only
    ev,           \* calls made for the current ticker, in order
    res,          \* outcome of each ticker processed by this run
    opens,        \* connections opened by this run
    wiped,        \* wipe_database returned in this run
    fault,        \* the call that raised in this run, "none" if none
    inj,          \* a storage failure was injected into a call of this run
    before,       \* symbols with a fresh observation when __enter__ began
    lastPut,      \* per symbol: the last store_price that returned
    nput,         \* per symbol: number of store_price calls that returned
    puts,         \* the store_price calls that returned since the last drop,
                  \* each with the rowids its two INSERTs were given
    norph,        \* interrupted store_price calls whose rows were committed
    ncut,         \* store_price calls of this run interrupted after the
                  \* price insert
    npend,        \* those of them whose rows are in the open transaction
    nfetch,       \* get_single_price calls of this run
    nstore        \* store_price calls of this run

config == <<ttl, drop_db>>
entered == <<opens, wiped, before>>
stored == <<lastPut, nput, puts, norph>>
calls == <<nfetch, nstore>>
cuts == <<ncut, npend>>

vars == <<disk, view, conn, pc, tickers, ttl, drop_db, i, price, clock, out,
          ev, res, opens, wiped, fault, inj, before, lastPut, nput, puts,
          norph, ncut, npend, nfetch, nstore>>

FailVal == -2
NoPut == [price |-> NoneVal, at |-> 0]

\* An entry of ev.
Event(op, sym, val) == [op |-> op, sym |-> sym, val |-> val]

Last(seq) == seq[Len(seq)]

\* The most recent store_price of s that returned is younger than t minutes.
FreshPut(s, t) == nput[s] >= 1 /\ clock - lastPut[s].at < t

Init ==
    /\ disk = EmptyDB
    /\ view = EmptyDB
    /\ conn = "none"
    /\ pc = "idle"
    /\ tickers = <<>>
    /\ ttl = 0
    /\ drop_db = FALSE
    /\ i = 1
    /\ price = NoneVal
    /\ clock = 0
    /\ out = <<>>
    /\ ev = <<>>
    /\ res = <<>>
    /\ opens = 0
    /\ wiped = FALSE
    /\ fault = "none"
    /\ inj = FALSE
    /\ before = {}
    /\ lastPut = [s \in Symbols |-> NoPut]
    /\ nput = [s \in Symbols |-> 0]
    /\ puts = <<>>
    /\ norph = 0
    /\ ncut = 0
    /\ npend = 0
    /\ nfetch = 0
    /\ nstore = 0

\* Wall-clock time passes.  The clock is read by get_price and store_price
\* only.  An observation that is stale stays stale, so a store_price that
\* follows a miss later leaves the store that a later miss followed at
\* once by store_price leaves: time passes at the loop head.
Tick ==
    /\ pc = "get"
    /\ clock < MaxClock
    /\ clock' = clock + 1
    /\ UNCHANGED <<disk, view, conn, pc, tickers, config, i, price, out, ev,
                   res, entered, fault, inj, stored, cuts, calls>>

\* __enter__ as called by the with statement of get_stock_prices, for one
\* configuration.  The loop reads TICKERS one ticker at a time and what it
\* has not read yet has no effect on it: tickers holds the part read so
\* far.  fc: sqlite3.connect raises; fw, fi: the statement of wipe_database / initialize_table that raises (0: none).  DDL is not run
\* in a transaction, so every drop and create is on disk at once.  When
\* __enter__ raises, the with statement does not call __exit__.
Enter(t, d, fc, fw, fi) ==
    /\ pc = "idle"
    /\ fc => (fw = 0 /\ fi = 0)
    /\ ~d => fw = 0
    /\ fw # 0 => fi = 0
    /\ LET w == IF d /\ ~fc THEN wipe_database(disk, fw) ELSE Ok(disk)
           n == IF w.ok /\ ~fc THEN initialize_table(w.db, fi) ELSE w
           dropped == d /\ ~fc /\ fw # 1
       IN  /\ disk' = n.db
           /\ view' = n.db
           /\ conn' = IF fc THEN "none" ELSE "open"
           /\ opens' = IF fc THEN 0 ELSE 1
           /\ wiped' = (d /\ ~fc /\ w.ok)
           /\ pc' = IF fc \/ ~n.ok THEN "enterfail" ELSE "get"
           /\ fault' = IF fc THEN "connect"
                       ELSE IF ~w.ok THEN "wipe"
                       ELSE IF ~n.ok THEN "init" ELSE "none"
           /\ lastPut' = IF dropped THEN [s \in Symbols |-> NoPut] ELSE lastPut
           /\ nput' = IF dropped THEN [s \in Symbols |-> 0] ELSE nput
           /\ puts' = IF dropped THEN <<>> ELSE puts
           /\ norph' = IF dropped THEN 0 ELSE norph
    /\ ncut' = 0
    /\ npend' = 0
    /\ nfetch' = 0
    /\ nstore' = 0
    /\ inj' = (fc \/ fw # 0 \/ fi # 0)
    /\ before' = {s \in Symbols : FreshPut(s, t)}
    /\ tickers' = <<>>
    /\ ttl' = t
    /\ drop_db' = d
    /\ i' = 1
    /\ price' = NoneVal
    /\ out' = <<>>
    /\ ev' = <<>>
    /\ res' = <<>>
    /\ UNCHANGED clock

\* An exception that leaves the loop body and the with block.
Propagate(outcome) ==
    /\ res' = Append(res, outcome)
    /\ pc' = "raise"
    /\ UNCHANGED i

\* The except branch of the loop body: the error line is printed and the
\* loop continues with the next ticker.
Continue(outcome) ==
    /\ res' = Append(res, outcome)
    /\ i' = i + 1
    /\ pc' = "get"

\* What the loop body does with an exception raised by store_price, which
\* is called inside the try.
StoreRaised == Continue("putfail")

\* An exception of get_single_price makes the loop body call it again for
\* the same ticker.
FetchRaisedRetry ==
    /\ pc' = "fetch"
    /\ UNCHANGED <<i, res>>

\* An exception of get_single_price that is not caught.
FetchRaisedFatal == Propagate("fetchfail")

\* What the loop body does with an exception raised by get_single_price.
FetchRaised == Continue("fetchfail")

\* A lookup that deletes the observations of the symbol when it answers
\* None (expired rows are purged on read).
GetPriceEvicting(s, f) ==
    /\ pc = "get"
    /\ Len(tickers) < MaxTickers
    /\ tickers' = Append(tickers, s)
    /\ LET r == get_price(view, s, ttl, clock, f)
           OfOther(m) == m.ticker_id # IndexOf(view.ticker, s)
       IN  /\ price' = r.val
           /\ ev' = <<Event("get", s, IF r.ok THEN r.val ELSE FailVal)>>
           /\ view' = IF r.ok /\ r.val = NoneVal
                      THEN [view EXCEPT !.stock_data = SelectSeq(@, OfOther)]
                      ELSE view
           /\ IF ~r.ok
              THEN /\ Propagate("getfail")
                   /\ fault' = "get"
              ELSE /\ pc' = IF r.val = NoneVal THEN "fetch" ELSE "print"
                   /\ UNCHANGED <<i, res, fault>>
    /\ inj' = (inj \/ f # 0)
    /\ UNCHANGED <<disk, conn, config, clock, out, entered, stored,
                   cuts, calls>>

\* line 105, the next ticker of TICKERS is s, and line 106:
\* price = db.get_price(ticker, ttl_minutes), outside the try.
GetPrice(s, f) ==
    /\ pc = "get"
    /\ Len(tickers) < MaxTickers
    /\ tickers' = Append(tickers, s)
    /\ LET r == get_price(view, s, ttl, clock, f)
       IN  /\ price' = r.val
           /\ ev' = <<Event("get", s, IF r.ok THEN r.val ELSE FailVal)>>
           /\ IF ~r.ok
              THEN /\ Propagate("getfail")
                   /\ fault' = "get"
              ELSE /\ pc' = IF r.val = NoneVal THEN "fetch" ELSE "print"
                   /\ UNCHANGED <<i, res, fault>>
    /\ inj' = (inj \/ f # 0)
    /\ UNCHANGED <<disk, view, conn, config, clock, out, entered, stored,
                   cuts, calls>>

\* line 109 returns and the loop body goes straight to line 114.
FetchOkNoStore ==
    /\ pc = "fetch"
    /\ Rows(view) < MaxRows
    /\ price' = Quote(tickers[i], clock)
    /\ ev' = Append(ev, Event("fetch", tickers[i], price'))
    /\ pc' = "print"
    /\ nfetch' = nfetch + 1
    /\ UNCHANGED <<disk, view, conn, tickers, config, i, clock, out, res,
                   entered, fault, inj, stored, cuts, nstore>>

\* line 109: stockstir.tools.get_single_price(ticker) returns the quote.
FetchOk ==
    /\ pc = "fetch"
    /\ Rows(view) < MaxRows
    /\ price' = Quote(tickers[i], clock)
    /\ ev' = Append(ev, Event("fetch", tickers[i], price'))
    /\ pc' = "store"
    /\ nfetch' = nfetch + 1
    /\ UNCHANGED <<disk, view, conn, tickers, config, i, clock, out, res,
                   entered, fault, inj, stored, cuts, nstore>>

\* line 109 raises and the except branch stores None as the price of the
\* ticker.
FetchFailStoresNone ==
    /\ pc = "fetch"
    /\ ev' = Append(ev, Event("fetch", tickers[i], FailVal))
    /\ FetchRaised
    /\ nfetch' = nfetch + 1
    /\ view' = store_price(view, tickers[i], NoneVal, clock, 0).db
    /\ disk' = view'
    /\ UNCHANGED <<conn, tickers, config, price, clock, out,
                   entered, fault, inj, stored, cuts, nstore>>

\* line 109 raises: lines 111-113.
FetchFail ==
    /\ pc = "fetch"
    /\ ev' = Append(ev, Event("fetch", tickers[i], FailVal))
    /\ FetchRaised
    /\ nfetch' = nfetch + 1
    /\ UNCHANGED <<disk, view, conn, tickers, config, price, clock, out,
                   entered, fault, inj, stored, cuts, nstore>>

\* Every statement is on disk as soon as it has run (autocommit).
CommittedAtOnce(r, old) == r.db

\* line 94: conn.commit() is reached when no statement of store_price has
\* raised; until then the inserts are in the open transaction only.
Committed(r, old) == IF r.ok THEN r.db ELSE old

\* line 110: db.store_price(ticker, price), inside the try.
StorePrice(f) ==
    /\ pc = "store"
    /\ LET r == store_price(view, tickers[i], price, clock, f)
       IN  /\ view' = r.db
           /\ disk' = Committed(r, disk)
           /\ ev' = Append(ev, Event("put", tickers[i],
                                     IF r.ok THEN price ELSE FailVal))
           /\ IF r.ok
              THEN /\ pc' = "print"
                   /\ lastPut' = [lastPut EXCEPT ![tickers[i]] =
                                     [price |-> price, at |-> clock]]
                   /\ nput' = [nput EXCEPT ![tickers[i]] = @ + 1]
                   /\ puts' = Append(puts,
                          [sym |-> tickers[i], price |-> price, at |-> clock,
                           price_row |-> Len(view.price) + 1,
                           date_row |-> Len(view.date) + 1])
                   /\ norph' = norph + npend
                   /\ npend' = 0
                   /\ UNCHANGED <<i, res, fault, ncut>>
              ELSE /\ StoreRaised
                   /\ fault' = "put"
                   /\ ncut' = IF f >= 3 THEN ncut + 1 ELSE ncut
                   /\ npend' = IF f >= 3 THEN npend + 1 ELSE npend
                   /\ UNCHANGED <<lastPut, nput, puts, norph>>
    /\ inj' = (inj \/ f # 0)
    /\ nstore' = nstore + 1
    /\ UNCHANGED <<conn, tickers, config, price, clock, out, entered, nfetch>>

\* The process is killed while store_price runs, before statement f: what
\* the earlier statements wrote is in a transaction that was never
\* committed, and SQLite rolls it back when the file is opened again.
StoreKilled(f) ==
    /\ pc = "store"
    /\ view' = store_price(view, tickers[i], price, clock, f).db
    /\ ev' = Append(ev, Event("put", tickers[i], FailVal))
    /\ pc' = "killed"
    /\ fault' = "kill"
    /\ ncut' = IF f >= 3 THEN ncut + 1 ELSE ncut
    /\ npend' = IF f >= 3 THEN npend + 1 ELSE npend
    /\ nstore' = nstore + 1
    /\ UNCHANGED <<disk, conn, tickers, config, i, price, clock, out, res,
                   entered, inj, stored, nfetch>>

\* The result line is written before the lines already printed.
ReportFirst(lines, ticker, value) == <<<<ticker, value>>>> \o lines

\* line 114: the result line of a ticker that has a price.
Report(lines, ticker, value) == Append(lines, <<ticker, value>>)

PrintLine ==
    /\ pc = "print"
    /\ out' = Report(out, tickers[i], price)
    /\ ev' = Append(ev, Event("report", tickers[i], price))
    /\ res' = Append(res, IF Len(ev) = 1 THEN "hit" ELSE "fetched")
    /\ i' = i + 1
    /\ pc' = "get"
    /\ UNCHANGED <<disk, view, conn, tickers, config, price, clock, entered,
                   fault, inj, stored, cuts, calls>>

\* __exit__ -> close_connection, when TICKERS has no further ticker (it
\* has at least one) or when an exception leaves the with block; closing
\* drops what was not committed.
Exit ==
    /\ pc = "raise" \/ (pc = "get" /\ tickers # <<>>)
    /\ conn' = IF conn = "open" THEN "closed" ELSE conn
    /\ view' = disk
    /\ pc' = IF pc = "get" THEN "done" ELSE "aborted"
    /\ npend' = 0
    /\ UNCHANGED <<disk, tickers, config, i, price, clock, out, ev, res, entered,
                   fault, inj, stored, ncut, calls>>

\* main() returns, dies with the exception or was killed: the process ends,
\* and with it the connection object and every local variable.  The next
\* run of the script starts from the database file alone.
ProcessExit ==
    /\ pc \in {"done", "aborted", "enterfail", "killed"}
    /\ pc' = "idle"
    /\ conn' = "none"
    /\ view' = disk
    /\ tickers' = <<>>
    /\ ttl' = 0
    /\ drop_db' = FALSE
    /\ i' = 1
    /\ price' = NoneVal
    /\ out' = <<>>
    /\ ev' = <<>>
    /\ res' = <<>>
    /\ opens' = 0
    /\ wiped' = FALSE
    /\ fault' = "none"
    /\ inj' = FALSE
    /\ before' = {}
    /\ ncut' = 0
    /\ npend' = 0
    /\ nfetch' = 0
    /\ nstore' = 0
    /\ UNCHANGED <<disk, clock, stored>>

\* The statement at which an injected storage failure makes a method raise
\* (0: none).  store_price: the first statement, with nothing written, or
\* the third, with the ticker row and the price row written and neither
\* timestamp nor link.  wipe_database, initialize_table: the first
\* statement.
FaultPoints == {0, 1, 3}
EnterFaults == 0..1

Next ==
    \/ Tick
    \/ \E t \in TTLs, d \in BOOLEAN, fc \in BOOLEAN,
          fw \in EnterFaults, fi \in EnterFaults : Enter(t, d, fc, fw, fi)
    \/ \E s \in Symbols, f \in 0..1 : GetPrice(s, f)
    \/ FetchOk
    \/ FetchFail
    \/ \E f \in FaultPoints : StorePrice(f)
    \/ \E f \in FaultPoints \ {0} : StoreKilled(f)
    \/ PrintLine
    \/ Exit
    \/ ProcessExit

Spec == Init /\ [][Next]_vars

TypeOK ==
    /\ conn \in {"none", "open", "closed"}
    /\ pc \in {"idle", "get", "fetch", "store", "print", "raise",
               "done", "aborted", "enterfail", "killed"}
    /\ i \in 1..MaxTickers + 1
    /\ Len(tickers) \in {i - 1, i}
    /\ price \in Prices \cup {NoneVal}
    /\ clock \in 0..MaxClock
    /\ Len(puts) \in 0..MaxRows
    /\ norph \in 0..MaxRows
    /\ ncut \in 0..MaxTickers
    /\ npend \in 0..ncut
    /\ nfetch \in 0..MaxTickers
    /\ nstore \in 0..MaxTickers

\* ----------------------------------------------------------- properties
\* get_price has just returned (not raised) for the current ticker.
GetAnswered == pc \in {"fetch", "print"} /\ Len(ev) = 1

\* Number of stock_data rows of symbol s.
ObsCount(db, s) ==
    Cardinality({m \in 1..Len(db.stock_data) :
                    /\ IndexOf(db.ticker, s) # 0
                    /\ db.stock_data[m].ticker_id = IndexOf(db.ticker, s)})

\* What a lookup of s that decides on the last returned store_price of s
\* answers.
LatestAnswer(s) ==
    IF FreshPut(s, ttl) THEN lastPut[s].price ELSE NoneVal

\* C1: after a sequence of store_price calls for a symbol that all
\* returned (no drop in between), get_price answers from the most recently
\* stored observation: its price exactly when it is younger than ttl
\* minutes, whatever older observations exist.
C1_GetDecidesOnLatest ==
    (GetAnswered /\ nput[tickers[i]] >= 1)
        => ev[1].val = LatestAnswer(tickers[i])

\* C2: the external fetch is never called for a symbol while an observation
\* of that symbol younger than ttl minutes is stored.
C2_NoFetchWhileFresh ==
    pc = "fetch" => ~FreshPut(tickers[i], ttl)

\* C3: for a symbol with exactly one stored observation, get_price returns
\* the stored price if and only if the observation's age is strictly below
\* ttl minutes; at age ttl and above it returns None.
C3_SingleObservationTTL ==
    (GetAnswered /\ nput[tickers[i]] = 1 /\ ObsCount(view, tickers[i]) = 1)
        => ev[1].val = (IF clock - lastPut[tickers[i]].at < ttl
                        THEN lastPut[tickers[i]].price ELSE NoneVal)

\* C3 witness: the single observation is exactly ttl minutes old and the
\* lookup has answered None.
C3_Witness ==
    /\ GetAnswered
    /\ nput[tickers[i]] = 1
    /\ ObsCount(view, tickers[i]) = 1
    /\ clock - lastPut[tickers[i]].at = ttl
    /\ ev[1].val = NoneVal

\* C4: when get_price returned None and the fetch returned p, the next call
\* is the one store_price(symbol, p) of this ticker, and the result line
\* {symbol, p} comes after that store_price has returned: fetch, put,
\* report, in this order, and no second put.
C4_PutBetweenFetchAndReport ==
    (Len(ev) >= 2 /\ ev[1].val = NoneVal /\ ev[2].val # FailVal) =>
        LET s == ev[1].sym
            p == ev[2].val
        IN  /\ ev[1].op = "get" /\ ev[2].op = "fetch" /\ ev[2].sym = s
            /\ Len(ev) <= 4
            /\ Len(ev) = 2 => (pc = "store" /\ price = p /\ tickers[i] = s)
            /\ Len(ev) >= 3 =>
                  /\ ev[3].op = "put" /\ ev[3].sym = s
                  /\ ev[3].val \in {p, FailVal}
            /\ (Len(ev) = 3 /\ ev[3].val = p) =>
                  /\ pc = "print" /\ price = p
                  /\ lastPut[s] = [price |-> p, at |-> clock]
            /\ Len(ev) = 4 =>
                  /\ ev[3].val = p
                  /\ ev[4] = Event("report", s, p)
                  /\ out # <<>> /\ Last(out) = <<s, p>>

\* C4 witness: an expired observation was refetched, stored and reported.
C4_Witness ==
    /\ Len(ev) = 4
    /\ ev[4].op = "report"
    /\ nput[ev[1].sym] = 2

\* The tickers processed so far whose outcome satisfies Keep, in order.
Processed(Keep(_)) ==
    LET idx == SelectSeq([k \in 1..Len(res) |-> k], LAMBDA k : Keep(res[k]))
    IN  [k \in 1..Len(idx) |-> tickers[idx[k]]]

HasPrice(outcome) == outcome \in {"hit", "fetched"}

\* The symbols of the printed result lines, in order.
OutSymbols == [k \in 1..Len(out) |-> out[k][1]]

\* C5: in a run without storage failure, whatever tickers fail to fetch,
\* the run does not abort: every ticker after a failing one is processed,
\* a failing ticker has no result line, every ticker that hits or fetches
\* has one.
C5_FetchFailureIsolated ==
    (fault = "none" /\ pc # "idle") =>
        /\ pc \notin {"raise", "aborted", "enterfail"}
        /\ \A k \in 1..Len(res) : res[k] \in {"hit", "fetched", "fetchfail"}
        /\ pc \in {"get", "done"} => (Len(res) = i - 1 /\ Len(res) = Len(tickers))
        /\ Len(out) = Cardinality({k \in 1..Len(res) : HasPrice(res[k])})
        /\ OutSymbols = Processed(HasPrice)

\* C5 witness: a run that is complete, with a result for the ticker that
\* follows a failing one.
C5_Witness ==
    /\ pc = "done"
    /\ fault = "none"
    /\ res = <<"fetchfail", "fetched">>
    /\ Len(out) = 1

\* C6: the symbols of the result lines are the tickers of the input with
\* the failed ones removed, in input order; every occurrence of a ticker
\* has its own get_price call and, after a miss, its own fetch.
C6_OrderPreserved ==
    /\ OutSymbols = Processed(HasPrice)
    /\ pc \in {"get", "done"} => (Len(res) = i - 1 /\ Len(res) = Len(tickers))
    /\ pc \in {"fetch", "store", "print"} =>
          /\ Len(res) = i - 1
          /\ ev[1].op = "get" /\ ev[1].sym = tickers[i]
    /\ pc = "store" => (ev[2].op = "fetch" /\ ev[2].sym = tickers[i])

\* C6 witness: the input MSFT, AAPL, both served from the cache, is
\* reported in this order.
C6_Witness ==
    /\ pc = "done"
    /\ tickers = <<"MSFT", "AAPL">>
    /\ res = <<"hit", "hit">>
    /\ OutSymbols = tickers

\* The stock_data rows of symbol s.
ObsRows(db, s) ==
    {m \in 1..Len(db.stock_data) :
        /\ db.stock_data[m].ticker_id \in 1..Len(db.ticker)
        /\ db.ticker[db.stock_data[m].ticker_id] = s}

\* C7: after n >= 1 store_price calls for a symbol that all returned (no
\* drop in between) there is exactly one ticker row of the
\* symbol and exactly n stock_data rows of it, each with a price row and a
\* date row of its own; store_price never adds a second ticker row of a
\* symbol.
C7_OneSymbolRowNObservations ==
    \A db \in {view, disk} :
        /\ \A a, b \in 1..Len(db.ticker) : db.ticker[a] = db.ticker[b] => a = b
        /\ \A s \in Symbols :
              nput[s] >= 1 =>
                  /\ Cardinality({k \in 1..Len(db.ticker) : db.ticker[k] = s}) = 1
                  /\ Cardinality(ObsRows(db, s)) = nput[s]
                  /\ \A m \in ObsRows(db, s) :
                        /\ db.stock_data[m].price_id \in 1..Len(db.price)
                        /\ db.stock_data[m].date_id \in 1..Len(db.date)
                  /\ \A m, n \in ObsRows(db, s) :
                        m # n =>
                          /\ db.stock_data[m].price_id # db.stock_data[n].price_id
                          /\ db.stock_data[m].date_id # db.stock_data[n].date_id

\* C7 witness: two store_price calls for AAPL have returned.
C7_Witness ==
    /\ nput["AAPL"] = 2
    /\ Cardinality(ObsRows(disk, "AAPL")) = 2
    /\ Len(disk.ticker) = 1

\* C8, the states: after wipe_database and initialize_table, get_price
\* answers None for every symbol and every ttl, and so does the first
\* lookup of the run, also for a symbol that had a fresh observation; the
\* wipe runs with DROP_DB only; __enter__ raises only when the storage
\* fails, never because a table to drop is missing.
C8_AfterReset ==
    /\ (wiped /\ pc = "get" /\ i = 1) =>
          \A s \in Symbols, t \in TTLs :
              get_price(view, s, t, clock, 0) = [ok |-> TRUE, val |-> NoneVal]
    /\ (wiped /\ i = 1 /\ ev # <<>>) => ev[1].val \in {NoneVal, FailVal}
    /\ wiped => drop_db
    /\ pc = "enterfail" => inj

\* C8, the steps: stored observations disappear only in the step that
\* enters a run with DROP_DB set, before any lookup of that run.
C8_OnlyResetDrops ==
    Len(disk'.stock_data) < Len(disk.stock_data)
        => (drop_db' /\ ev' = <<>> /\ res' = <<>> /\ pc' \in {"get", "enterfail"})

\* C8: after a reset every lookup misses, also inside a former TTL window;
\* the reset runs only with DROP_DB, before any lookup of the run, and
\* does not fail on a store without tables.
C8_ResetIrreversible == [](C8_AfterReset) /\ [][C8_OnlyResetDrops]_vars

\* C8 witness: a symbol with a fresh observation before the reset is looked
\* up first in the run that reset the store, and misses.
C8_Witness ==
    /\ wiped
    /\ GetAnswered
    /\ i = 1
    /\ tickers[1] \in before
    /\ ev[1].val = NoneVal

\* C9: a storage failure raised by get_price or by store_price ends the
\* run: it is never turned into a per-ticker skip.
C9_StorageFailureFatal ==
    fault \in {"get", "put"} => pc \in {"raise", "aborted"}

\* C10: a run opens at most one connection, every run that has opened one
\* and has ended has closed it (also when wipe_database or initialize_table
\* raised), and nothing uses the store after the close.
C10_ConnectionAlwaysClosed ==
    /\ opens <= 1
    /\ (pc \in {"done", "aborted", "enterfail"} /\ opens = 1) => conn = "closed"
    /\ conn = "closed" => pc \in {"done", "aborted"}


\* ------------------------------------------------------------------ C11
\* The ttl values a lookup can be asked with, beyond those a run is
\* configured with.
AnyTTL == 0..MaxClock + 1

\* C11: while no store_price of a symbol has returned since the last drop,
\* get_price of that symbol answers None, for every ttl and whatever rows
\* of other symbols the database holds, in the lookups the runs make and
\* in any lookup that could be made on the connection's view or on the
\* file in the current state.
C11_UnseenSymbolMisses ==
    /\ (GetAnswered /\ nput[tickers[i]] = 0) => ev[1].val = NoneVal
    /\ \A s \in Symbols, t \in AnyTTL :
           nput[s] = 0 =>
               /\ get_price(view, s, t, clock, 0).val = NoneVal
               /\ get_price(disk, s, t, clock, 0).val = NoneVal

\* A lookup of a symbol that was never stored has missed while the other
\* symbol has an observation younger than ttl in the database.
C11_Witness ==
    /\ GetAnswered
    /\ nput[tickers[i]] = 0
    /\ ev[1].val = NoneVal
    /\ \E s \in Symbols \ {tickers[i]} :
           /\ FreshPut(s, ttl)
           /\ get_price(view, s, ttl, clock, 0).val # NoneVal


\* ------------------------------------------------------------------ C12
\* A step in which get_price is called: the loop leaves line 106 for the
\* fetch (miss or stale), for the result line (hit) or with the exception.
GetStep == pc = "get" /\ pc' \in {"fetch", "print", "raise"}

\* C12: a call of get_price leaves the database as it was, on the
\* connection's view and on the file, whether it hits, finds a stale
\* observation or finds none: no ticker, price, date or stock_data row is
\* added, removed or modified.
C12_GetLeavesStoreUnchanged ==
    [][GetStep => (view' = view /\ disk' = disk)]_vars

\* A lookup has found only a stale observation of its symbol and answered
\* None, and every observation stored for the symbol is still there.
C12_Witness ==
    /\ GetAnswered
    /\ ev[1].val = NoneVal
    /\ nput[tickers[i]] >= 1
    /\ JoinRows(view, tickers[i]) # <<>>
    /\ ObsCount(view, tickers[i]) = nput[tickers[i]]
    /\ ObsCount(disk, tickers[i]) = nput[tickers[i]]


\* ------------------------------------------------------------------ C13
\* Row m of stock_data in db is the row of the m-th store_price that
\* returned: it references existing ticker, price and date rows, the ticker
\* row is that call's symbol, the price and date rows are the ones that
\* call inserted and hold its price and its time.
LinkedToOwnPut(db, m) ==
    LET r == db.stock_data[m]
        p == puts[m]
    IN  /\ r.ticker_id \in 1..Len(db.ticker)
        /\ r.price_id \in 1..Len(db.price)
        /\ r.date_id \in 1..Len(db.date)
        /\ db.ticker[r.ticker_id] = p.sym
        /\ r.price_id = p.price_row
        /\ db.price[r.price_id] = p.price
        /\ r.date_id = p.date_row
        /\ fromisoformat(db.date[r.date_id]) = p.at

\* seq is an initial part of seq2.
IsPrefix(seq, seq2) ==
    /\ Len(seq) <= Len(seq2)
    /\ \A k \in 1..Len(seq) : seq[k] = seq2[k]

\* A step in which store_price returns.
PutStep == pc = "store" /\ pc' = "print"

\* What a returning store_price does to the tables: one price row with
\* the price, one date row with the time and one stock_data row are
\* appended, the ticker table gets at most the row of the symbol, and on
\* the file no row that was there is changed or removed.
PutAppendsOneRowEach ==
    /\ view'.price = Append(view.price, price)
    /\ view'.date = Append(view.date, isoformat(clock))
    /\ Len(view'.stock_data) = Len(view.stock_data) + 1
    /\ IsPrefix(view.stock_data, view'.stock_data)
    /\ view'.ticker \in {view.ticker, Append(view.ticker, tickers[i])}
    /\ disk' = view'
    /\ IsPrefix(disk.ticker, disk'.ticker)
    /\ IsPrefix(disk.price, disk'.price)
    /\ IsPrefix(disk.date, disk'.date)
    /\ IsPrefix(disk.stock_data, disk'.stock_data)

\* C13: in every reachable state, on the connection's view and on the
\* file, the stock_data rows are those of the store_price calls that
\* returned since the last drop, each referencing an existing ticker row
\* of its symbol and the price and date rows inserted by its own call;
\* and each returning store_price appends exactly one price row, one date
\* row and one stock_data row and changes or removes no existing row.
C13_RowsLinkedAppendOnly ==
    /\ [](\A db \in {view, disk} :
             /\ Len(db.stock_data) = Len(puts)
             /\ \A m \in 1..Len(db.stock_data) : LinkedToOwnPut(db, m))
    /\ [][PutStep => PutAppendsOneRowEach]_vars

\* A store_price has returned whose stock_data row references a price row
\* and a date row with different ids, because a call interrupted before it
\* had left a price row without a date row; the row is linked to the rows
\* of its own call all the same.
C13_Witness ==
    /\ Len(disk.stock_data) >= 1
    /\ \E m \in 1..Len(disk.stock_data) :
           /\ disk.stock_data[m].price_id # disk.stock_data[m].date_id
           /\ LinkedToOwnPut(disk, m)


\* ------------------------------------------------------------------ C14
\* A step in which a run enters the with block (or fails to).
EnterStep == pc = "idle" /\ pc' # "idle"

\* The same rows in the four tables.
SameRows(db, db2) ==
    /\ db.ticker = db2.ticker
    /\ db.price = db2.price
    /\ db.date = db2.date
    /\ db.stock_data = db2.stock_data

\* __enter__ without DROP_DB leaves every row of the file in place, and
\* the connection sees them.
InitializeKeepsRows ==
    [][(EnterStep /\ ~drop_db') =>
          (SameRows(disk, disk') /\ SameRows(disk, view'))]_vars

\* In a run without DROP_DB that has stored nothing yet, a lookup of a
\* symbol with an observation younger than ttl, written by an earlier
\* run, is a hit.
EarlierObservationsServed ==
    (GetAnswered /\ ~drop_db /\ nstore = 0 /\ FreshPut(tickers[i], ttl))
        => ev[1].val # NoneVal

\* C14: initialize_table on a database that holds observations leaves
\* every row in place, so a run started without DROP_DB sees the
\* observations written by earlier runs and serves them as hits while
\* they are younger than ttl.
C14_InitializeKeepsAndServes ==
    InitializeKeepsRows /\ []EarlierObservationsServed


\* ------------------------------------------------------------------ C15
\* Number of price rows of db that no stock_data row references.
OrphanCount(db) ==
    Cardinality({k \in 1..Len(db.price) :
                    \A m \in 1..Len(db.stock_data) :
                        db.stock_data[m].price_id # k})

\* The run is over: closed, or killed.
RunOver == pc \in {"done", "aborted", "killed"}

\* C15 as the specification states it: a store_price interrupted after
\* the price insert and before the stock_data insert leaves a price row
\* that no stock_data row references in the database file, so when the run
\* is over the file holds such a row for every interrupted call of the
\* run.
C15_InterruptedPutLeavesOrphan ==
    (RunOver /\ ncut >= 1) => OrphanCount(disk) >= ncut

\* C15, amended: the price row of an interrupted store_price is in the
\* open transaction of the connection, not in the database file.  The
\* file holds exactly the orphan price rows of the interrupted calls that
\* a later store_price of the same run committed by returning; the rows
\* of the others are dropped when the connection is closed or the process
\* dies.
C15_OrphanOnlyWhenCommitted ==
    /\ OrphanCount(disk) = norph
    /\ pc \in {"get", "fetch", "store", "print", "raise", "killed"} =>
           OrphanCount(view) = norph + npend
    /\ pc \in {"done", "aborted", "idle"} => (npend = 0 /\ view = disk)

\* A store_price of this run was interrupted after its price insert, a
\* later one returned, and the file holds the orphan price row.
C15_Witness ==
    /\ ncut >= 1
    /\ npend = 0
    /\ pc = "print"
    /\ OrphanCount(disk) >= 1
    /\ OrphanCount(disk) = norph


\* ------------------------------------------------------------------ C16
\* Number of calls of op made for the current ticker.
CallsOf(op) == Cardinality({k \in 1..Len(ev) : ev[k].op = op})

\* C16: there are no retries.  For every occurrence of a ticker,
\* get_single_price is called at most once, also when it raises, and
\* store_price at most once, also when it raises; so a run has made at
\* most as many fetches and as many store_price calls as it has read
\* tickers, and after a fetch that raised the loop is at the next ticker.
C16_NoRetries ==
    /\ CallsOf("fetch") <= 1
    /\ CallsOf("put") <= 1
    /\ nfetch <= Len(tickers)
    /\ nstore <= nfetch
    /\ (Len(ev) >= 2 /\ ev[2].val = FailVal) =>
           /\ Len(ev) = 2
           /\ pc \in {"get", "done"}
           /\ Len(res) = Len(tickers)
           /\ Last(res) = "fetchfail"
    /\ (Len(ev) >= 3 /\ ev[3].val = FailVal) => Len(ev) = 3

\* The fetch of the only ticker read so far has raised: it was called
\* once, store_price was not called, and the loop is at the next ticker.
C16_Witness ==
    /\ pc = "get"
    /\ Len(tickers) = 1
    /\ Len(ev) = 2
    /\ ev[2] = Event("fetch", tickers[1], FailVal)
    /\ nfetch = 1
    /\ nstore = 0


\* ------------------------------------------------------------------ C17
\* A step in which get_single_price raises and the loop goes on.
FetchFailStep == pc = "fetch" /\ pc' = "get"

\* C17: when the fetch of a ticker raises, the processing of that ticker
\* leaves the database as it was, on the connection's view and on the
\* file: the step adds no ticker, price, date or stock_data row, so
\* get_price gives the same answer for every symbol and every ttl after
\* the failed attempt as before it; and store_price is not called for
\* that ticker.
C17_FetchFailureLeavesStore ==
    /\ [][FetchFailStep =>
             /\ view' = view
             /\ disk' = disk
             /\ \A s \in Symbols, t \in AnyTTL :
                    get_price(view', s, t, clock', 0) =
                        get_price(view, s, t, clock, 0)]_vars
    /\ []((Len(ev) >= 2 /\ ev[2].val = FailVal) => CallsOf("put") = 0)

\* The fetch of a ticker with a stale observation has raised: the
\* observations of the symbol are all still stored and no row was added.
C17_Witness ==
    /\ pc = "get"
    /\ Len(ev) = 2
    /\ ev[2].val = FailVal
    /\ nput[ev[1].sym] >= 1
    /\ ObsCount(view, ev[1].sym) = nput[ev[1].sym]
    /\ ObsCount(disk, ev[1].sym) = nput[ev[1].sym]
    /\ Len(view.price) = Len(puts) + norph + npend

====
